---- MODULE Spec2Model ----
(***************************************************************************)
(* Model of util/frame/video.rs: the Video frame wrapper around AVFrame.   *)
(*                                                                         *)
(* State: two frames.  F is the frame the operations act on, G is the      *)
(* destination of clone / clone_from.  A frame is the AVFrame behind the   *)
(* wrapper: format, width, height, the 8-entry linesize and data arrays    *)
(* and the metadata fields the getters read.  data[i] is modelled by the   *)
(* bytes of the buffer reserved for plane i (<<>> is a NULL pointer).      *)
(* Plane indices are 0-based in the code and i+1 in the sequences here.    *)
(*                                                                         *)
(* ret records the last call: its name, its arguments and what it          *)
(* returned or signalled.                                                  *)
(***************************************************************************)
EXTENDS Integers, Sequences, FiniteSets, TLC

VARIABLES F, G, ret, ops

vars == <<F, G, ret, ops>>

\* ---------------------------------------------------------------- bounds
\* width / height arguments range over 0..MaxDim
MaxDim == 2
\* byte values range over 0..MaxByte
MaxByte == 1
\* colour tags (space, range, primaries, transfer) range over 0..MaxTag
MaxTag == 1
\* number of calls in one run
MaxOps == 3

Dims == 0 .. MaxDim
Bytes == 0 .. MaxByte
Tags == 0 .. MaxTag

\* ------------------------------------------------------- program constants
\* the length of AVFrame.linesize / AVFrame.data scanned by planes()
AV_NUM_DATA_POINTERS == 8

\* ---------------------------------------------------------- pixel formats
Packed3 == {"RGB24", "BGR24"}
Packed4 == {"RGBA", "BGRA", "ARGB", "ABGR", "RGBZ", "BGRZ", "ZRGB", "ZBGR"}

\* format::Pixel, restricted to the formats the Component impls name plus
\* one gray, one planar format and the None sentinel
Pixel == {"None", "GRAY8", "YUV444P"} \cup Packed3 \cup Packed4

\* ---------------------------------------------------------------- helpers
Min(a, b) == IF a < b THEN a ELSE b

Abs(a) == IF a < 0 THEN -a ELSE a

Zeros == [i \in 1 .. AV_NUM_DATA_POINTERS |-> 0]

Nulls == [i \in 1 .. AV_NUM_DATA_POINTERS |-> <<>>]

Fill(n, v) == [k \in 1 .. n |-> v]

\* ------------------------------------------- the external pixel registry
\* bytes per pixel of plane 0 (av_image_fill_linesizes, alignment 1)
BytesPerPixel(format) ==
    IF format \in Packed3 THEN 3
    ELSE IF format \in Packed4 THEN 4
    ELSE IF format \in {"GRAY8", "YUV444P"} THEN 1
    ELSE 0

\* av_pix_fmt_count_planes
NbPlanes(format) ==
    IF format = "None" THEN 0
    ELSE IF format = "YUV444P" THEN 3
    ELSE 1

\* av_image_get_linesize(format, width, plane): bytes of one row of a plane
ImageLinesize(format, width, i) ==
    IF i < NbPlanes(format) THEN BytesPerPixel(format) * width ELSE 0

\* av_image_fill_linesizes(linesize, format, width)
Linesizes(format, width) ==
    [i \in 1 .. AV_NUM_DATA_POINTERS |-> ImageLinesize(format, width, i - 1)]

\* ------------------------------------------------------------ the frame
\* Video::empty(): av_frame_alloc() / get_frame_defaults()
empty ==
    [format |-> "None", width |-> 0, height |-> 0,
     linesize |-> Zeros, data |-> Nulls,
     colorspace |-> 0, color_range |-> 0,
     color_primaries |-> 0, color_trc |-> 0,
     pict_type |-> 0, interlaced_frame |-> 0, top_field_first |-> 0,
     palette_has_changed |-> 0, chroma_location |-> 0,
     sample_aspect_ratio |-> 0, coded_picture_number |-> 0,
     display_picture_number |-> 0, repeat_pict |-> 0]

\* the fields av_frame_copy_props copies and a getter of Video reads
PropFields ==
    {"colorspace", "color_range", "color_primaries", "color_trc",
     "pict_type", "interlaced_frame", "top_field_first",
     "palette_has_changed", "chroma_location", "sample_aspect_ratio",
     "coded_picture_number", "display_picture_number", "repeat_pict"}

AllFields == PropFields \cup {"format", "width", "height", "linesize", "data"}

\* ------------------------------------------------------------- getters
format(f) == f.format

width(f) == f.width

height(f) == f.height

\* ------------------------------------------------------------- setters
set_format(f, value) == [f EXCEPT !.format = value]

set_width(f, value) == [f EXCEPT !.width = value]

\* set_height as it would be if it resized the storage to the new height
set_height_resizing(f, value) ==
    [f EXCEPT !.height = value,
              !.data = [i \in 1 .. AV_NUM_DATA_POINTERS |->
                          Fill(Abs(f.linesize[i]) * value, 0)]]

set_height(f, value) == [f EXCEPT !.height = value]

set_color_space(f, value) == [f EXCEPT !.colorspace = value]

set_color_range(f, value) == [f EXCEPT !.color_range = value]

set_color_primaries(f, value) == [f EXCEPT !.color_primaries = value]

set_color_transfer_characteristic(f, value) == [f EXCEPT !.color_trc = value]

\* ---------------------------------------------------------- allocation
\* av_frame_get_buffer(frame, 1), the external allocation primitive.
\* It refuses (EINVAL, frame untouched) a frame without a format or with a
\* dimension <= 0; it computes the linesizes only when linesize[0] is 0; on
\* an allocation failure (enomem) it unrefs the frame, which resets every
\* field to its default.  The storage reserved for plane i is counted as
\* linesize[i] * height bytes (the padding rows the library adds are left
\* out); fresh storage is uninitialised: it holds the byte v everywhere.
av_frame_get_buffer(f, enomem, v) ==
    IF f.format = "None" \/ f.width <= 0 \/ f.height <= 0
    THEN f
    ELSE LET ls == IF f.linesize[1] = 0
                   THEN Linesizes(f.format, f.width)
                   ELSE f.linesize
             live(i) == i <= 4 /\ \A j \in 1 .. i : ls[j] # 0
         IN  IF enomem \/ \E i \in 1 .. 4 : live(i) /\ ls[i] < 0
             THEN empty
             ELSE [f EXCEPT
                     !.linesize = ls,
                     !.data = [i \in 1 .. AV_NUM_DATA_POINTERS |->
                                 IF live(i) THEN Fill(ls[i] * f.height, v)
                                 ELSE f.data[i]]]

\* Video::alloc: the three setters, then the buffer request, whose return
\* value is dropped
alloc(f, fmt, w, h, enomem, v) ==
    av_frame_get_buffer(set_height(set_width(set_format(f, fmt), w), h),
                        enomem, v)

\* Video::new
new(fmt, w, h, enomem, v) == alloc(empty, fmt, w, h, enomem, v)

\* ------------------------------------------------------------ plane count
RECURSIVE planesFrom(_, _)
planesFrom(f, i) ==
    IF i = AV_NUM_DATA_POINTERS THEN AV_NUM_DATA_POINTERS
    ELSE IF f.linesize[i + 1] = 0 THEN i
    ELSE planesFrom(f, i + 1)

\* Video::planes: the index of the first linesize equal to 0, or 8
planes(f) == planesFrom(f, 0)

\* -------------------------------------------------------- component types
ComponentTypes ==
    {"[u8; 3]", "(u8, u8, u8)", "[u8; 4]", "(u8, u8, u8, u8)",
     "Luma<u8>", "Rgb<u8>", "Rgba<u8>"}

\* mem::size_of::<T>()
size_of(T) ==
    IF T = "Luma<u8>" THEN 1
    ELSE IF T \in {"[u8; 3]", "(u8, u8, u8)", "Rgb<u8>"} THEN 3
    ELSE 4

\* is_valid as it would be with one predicate shared by every layout
is_valid_any_packed(T, value) == value \in Packed3 \cup Packed4

\* <T as Component>::is_valid(format)
is_valid(T, value) ==
    CASE T = "Luma<u8>" -> value = "GRAY8"
      [] T = "Rgb<u8>" -> value = "RGB24"
      [] T = "Rgba<u8>" -> value = "RGBA"
      [] T = "[u8; 3]" -> value = "RGB24" \/ value = "BGR24"
      [] T = "(u8, u8, u8)" -> value = "RGB24" \/ value = "BGR24"
      [] T = "[u8; 4]" ->
            value = "RGBA" \/ value = "BGRA" \/ value = "ARGB" \/ value = "ABGR"
            \/ value = "RGBZ" \/ value = "BGRZ" \/ value = "ZRGB" \/ value = "ZBGR"
      [] T = "(u8, u8, u8, u8)" ->
            value = "RGBA" \/ value = "BGRA" \/ value = "ARGB" \/ value = "ABGR"
            \/ value = "RGBZ" \/ value = "BGRZ" \/ value = "ZRGB" \/ value = "ZBGR"

\* ------------------------------------------------------------ typed views
\* plane with the index test off by one
plane_off_by_one(f, T, index) ==
    IF index > planes(f)
    THEN [out |-> "out of bounds", len |-> 0]
    ELSE IF ~is_valid(T, f.format)
    THEN [out |-> "unsupported type", len |-> 0]
    ELSE [out |-> "view",
          len |-> (f.linesize[Min(index + 1, AV_NUM_DATA_POINTERS)] * f.height)
                    \div size_of(T)]

\* Video::plane::<T>(index).  out is the panic message or "view"; len is the
\* element count handed to slice::from_raw_parts (integer division).  For a
\* negative linesize the product is kept signed: it stands for the wrapped
\* usize the cast produces.
plane(f, T, index) ==
    IF index >= planes(f)
    THEN [out |-> "out of bounds", len |-> 0]
    ELSE IF ~is_valid(T, format(f))
    THEN [out |-> "unsupported type", len |-> 0]
    ELSE [out |-> "view",
          len |-> (f.linesize[index + 1] * height(f)) \div size_of(T)]

\* Video::plane_mut::<T>(index)
plane_mut(f, T, index) ==
    IF index >= planes(f)
    THEN [out |-> "out of bounds", len |-> 0]
    ELSE IF ~is_valid(T, format(f))
    THEN [out |-> "unsupported type", len |-> 0]
    ELSE [out |-> "view",
          len |-> (f.linesize[index + 1] * height(f)) \div size_of(T)]

\* ------------------------------------------------------------- byte views
\* linesize.iter().take_while(|l| **l > 0): the length of the leading run
\* of positive linesizes
RECURSIVE takePositive(_, _)
takePositive(f, i) ==
    IF i = AV_NUM_DATA_POINTERS THEN AV_NUM_DATA_POINTERS
    ELSE IF f.linesize[i + 1] > 0 THEN takePositive(f, i + 1)
    ELSE i

\* one slice: its length and the bytes of it that lie inside the storage of
\* the plane (a slice longer than the storage reads past it)
Slice(f, i) ==
    LET n == f.linesize[i] * height(f)
    IN  [len |-> n,
         bytes |-> SubSeq(f.data[i], 1, Min(n, Len(f.data[i])))]

\* Video::data
data(f) == [i \in 1 .. takePositive(f, 0) |-> Slice(f, i)]

\* Video::data_mut
data_mut(f) == [i \in 1 .. takePositive(f, 0) |-> Slice(f, i)]

\* ------------------------------------------------------------------ clone
\* a byte of a source plane; a read past the storage yields the byte junk
ReadByte(buf, off, junk) == IF off < Len(buf) THEN buf[off + 1] ELSE junk

\* av_image_copy_plane: h rows of bwidth bytes, row r of the source at
\* r * |src linesize|, row r of the destination at r * dst linesize
copy_plane(dbuf, dls, sbuf, sls, bwidth, h, junk) ==
    [k \in 1 .. Len(dbuf) |->
        LET r == (k - 1) \div dls
            c == (k - 1) % dls
        IN  IF r < h /\ c < bwidth
            THEN ReadByte(sbuf, r * Abs(sls) + c, junk)
            ELSE dbuf[k]]

\* whether av_frame_copy gets as far as copying planes: same format, width
\* and height, positive dimensions, no NULL plane on either side
CopyAccepted(dst, src) ==
    /\ dst.format = src.format
    /\ dst.width = src.width
    /\ dst.height = src.height
    /\ dst.width > 0
    /\ dst.height > 0
    /\ \A i \in 1 .. NbPlanes(dst.format) :
          dst.data[i] # <<>> /\ src.data[i] # <<>>

\* av_image_copy_plane asserts |linesize| >= bytes per row on both sides;
\* a failed assertion aborts the process
CopyAborts(dst, src) ==
    /\ CopyAccepted(dst, src)
    /\ \E i \in 1 .. NbPlanes(dst.format) :
          LET bwidth == ImageLinesize(dst.format, src.width, i - 1)
          IN  Abs(src.linesize[i]) < bwidth \/ Abs(dst.linesize[i]) < bwidth

\* av_frame_copy(dst, src): EINVAL (dst untouched) unless accepted
av_frame_copy(dst, src, junk) ==
    IF ~CopyAccepted(dst, src)
    THEN dst
    ELSE [dst EXCEPT !.data =
            [i \in 1 .. AV_NUM_DATA_POINTERS |->
                IF i <= NbPlanes(dst.format)
                THEN copy_plane(dst.data[i], dst.linesize[i],
                                src.data[i], src.linesize[i],
                                ImageLinesize(dst.format, src.width, i - 1),
                                src.height, junk)
                ELSE dst.data[i]]]

\* av_frame_copy_props(dst, src): every metadata field but format, width,
\* height, linesize and data
av_frame_copy_props(dst, src) ==
    [fld \in AllFields |-> IF fld \in PropFields THEN src[fld] ELSE dst[fld]]

\* Clone::clone_from: both calls, neither return value looked at
clone_from(dst, src, junk) ==
    av_frame_copy_props(av_frame_copy(dst, src, junk), src)

\* Clone::clone
clone(src, enomem, v, junk) ==
    clone_from(new(format(src), width(src), height(src), enomem, v), src, junk)

\* whether clone dies in av_frame_copy
CloneAborts(src, enomem, v) ==
    CopyAborts(new(format(src), width(src), height(src), enomem, v), src)

\* ---------------------------------------------------------------- calls
\* the record of a call: op its name, out what it signalled, n a number it
\* returned, enomem whether the allocation primitive reported a failure
\* during it, the rest its arguments ("-" and 0 where it has none)
Call(op, out, n) ==
    [op |-> op, out |-> out, n |-> n, enomem |-> FALSE, T |-> "-", index |-> 0,
     fmt |-> "-", w |-> 0, h |-> 0, value |-> 0]

Init ==
    /\ F = empty
    /\ G = empty
    /\ ret = Call("empty", "ok", 0)
    /\ ops = 0

\* a call that changes a frame
Step == ops < MaxOps /\ ops' = ops + 1

\* a call that only reads the frame; it ends the run
Observe == ops < MaxOps /\ ops' = MaxOps

\* the formats frames are allocated with: one of each storage layout
AllocFormats == {"None", "GRAY8", "RGB24", "RGBA", "YUV444P"}

\* the outcomes of the allocation primitive that matter for (fmt, w, h):
\* without a format or a positive size it fails before it allocates
Outcomes(fmt, w, h) ==
    IF fmt = "None" \/ w <= 0 \/ h <= 0
    THEN {<<FALSE, 0>>}
    ELSE {<<TRUE, 0>>} \cup {<<FALSE, v>> : v \in Bytes}

\* the plane indices a caller asks for: every plane and the first index
\* past them
PlaneIndexes(f) == 0 .. planes(f)

\* F = Video::new(fmt, w, h)
New ==
    \E fmt \in AllocFormats, w \in Dims, h \in Dims :
      \E o \in Outcomes(fmt, w, h) :
        /\ ops = 0
        /\ Step
        /\ F' = new(fmt, w, h, o[1], o[2])
        /\ ret' = [Call("new", "ok", 0)
                     EXCEPT !.fmt = fmt, !.w = w, !.h = h, !.enomem = o[1]]
        /\ UNCHANGED G

SetFormat ==
    \E value \in Pixel :
        /\ Step
        /\ F' = set_format(F, value)
        /\ ret' = [Call("set_format", "ok", 0) EXCEPT !.fmt = value]
        /\ UNCHANGED G

SetWidth ==
    \E value \in Dims :
        /\ Step
        /\ F' = set_width(F, value)
        /\ ret' = [Call("set_width", "ok", 0) EXCEPT !.value = value]
        /\ UNCHANGED G

SetHeight ==
    \E value \in Dims :
        /\ Step
        /\ F' = set_height(F, value)
        /\ ret' = [Call("set_height", "ok", 0) EXCEPT !.value = value]
        /\ UNCHANGED G

SetColorSpace ==
    \E value \in Tags :
        /\ Step
        /\ F' = set_color_space(F, value)
        /\ ret' = [Call("set_color_space", "ok", 0) EXCEPT !.value = value]
        /\ UNCHANGED G

SetColorRange ==
    \E value \in Tags :
        /\ Step
        /\ F' = set_color_range(F, value)
        /\ ret' = [Call("set_color_range", "ok", 0) EXCEPT !.value = value]
        /\ UNCHANGED G

SetColorPrimaries ==
    \E value \in Tags :
        /\ Step
        /\ F' = set_color_primaries(F, value)
        /\ ret' = [Call("set_color_primaries", "ok", 0) EXCEPT !.value = value]
        /\ UNCHANGED G

SetColorTransferCharacteristic ==
    \E value \in Tags :
        /\ Step
        /\ F' = set_color_transfer_characteristic(F, value)
        /\ ret' = [Call("set_color_transfer_characteristic", "ok", 0)
                     EXCEPT !.value = value]
        /\ UNCHANGED G

\* F.planes()
Planes ==
    /\ Observe
    /\ ret' = Call("planes", "ok", planes(F))
    /\ UNCHANGED <<F, G>>

\* F.plane::<T>(index)
Plane ==
    \E T \in ComponentTypes, index \in PlaneIndexes(F) :
        /\ Observe
        /\ ret' = [Call("plane", plane(F, T, index).out, plane(F, T, index).len)
                     EXCEPT !.T = T, !.index = index]
        /\ UNCHANGED <<F, G>>

\* F.plane_mut::<T>(index)
PlaneMut ==
    \E T \in ComponentTypes, index \in PlaneIndexes(F) :
        /\ Observe
        /\ ret' = [Call("plane_mut", plane_mut(F, T, index).out,
                        plane_mut(F, T, index).len)
                     EXCEPT !.T = T, !.index = index]
        /\ UNCHANGED <<F, G>>

\* F.data()
Data ==
    /\ Observe
    /\ ret' = Call("data", "ok", Len(data(F)))
    /\ UNCHANGED <<F, G>>

\* F.data_mut()[i][k] = v, for a byte of the slice that lies in the storage
DataMut ==
    \E i \in 1 .. Len(data_mut(F)) :
        \E k \in 1 .. Len(data_mut(F)[i].bytes), v \in Bytes :
            /\ Step
            /\ F' = [F EXCEPT !.data[i][k] = v]
            /\ ret' = [Call("data_mut", "ok", Len(data_mut(F)))
                         EXCEPT !.index = i - 1, !.value = v]
            /\ UNCHANGED G

\* G = F.clone()
Clone ==
    \E o \in Outcomes(format(F), width(F), height(F)), junk \in Bytes :
        /\ Step
        /\ IF CloneAborts(F, o[1], o[2])
           THEN /\ ret' = Call("clone", "abort", 0)
                /\ UNCHANGED <<F, G>>
           ELSE /\ G' = clone(F, o[1], o[2], junk)
                /\ ret' = [Call("clone", "ok", 0) EXCEPT !.enomem = o[1]]
                /\ UNCHANGED F

\* G.clone_from(&F)
CloneFrom ==
    \E junk \in Bytes :
        /\ Step
        /\ IF CopyAborts(G, F)
           THEN /\ ret' = Call("clone_from", "abort", 0)
                /\ UNCHANGED <<F, G>>
           ELSE /\ G' = clone_from(G, F, junk)
                /\ ret' = Call("clone_from", "ok", 0)
                /\ UNCHANGED F

Next ==
    \/ New
    \/ SetFormat
    \/ SetWidth
    \/ SetHeight
    \/ SetColorSpace
    \/ SetColorRange
    \/ SetColorPrimaries
    \/ SetColorTransferCharacteristic
    \/ Planes
    \/ Plane
    \/ PlaneMut
    \/ Data
    \/ DataMut
    \/ Clone
    \/ CloneFrom

\* the safe interface of Video
Spec == Init /\ [][Next]_vars

\* ------------------------------------------------- the unsafe functions
\* F.alloc(fmt, w, h)
Alloc ==
    \E fmt \in AllocFormats, w \in Dims, h \in Dims :
      \E o \in Outcomes(fmt, w, h) :
        /\ Step
        /\ F' = alloc(F, fmt, w, h, o[1], o[2])
        /\ ret' = [Call("alloc", "ok", 0)
                     EXCEPT !.fmt = fmt, !.w = w, !.h = h, !.enomem = o[1]]
        /\ UNCHANGED G

\* a frame made outside (a decoder, a filter): its planes are laid out for
\* its format and size, top-down or bottom-up (flip: negative linesizes,
\* the data pointers at the last row; the rows are kept here in the order
\* the pointer walks them), every byte is v, every metadata field is tag
External(fmt, w, h, flip, v, tag) ==
    [fld \in AllFields |->
        CASE fld = "format" -> fmt
          [] fld = "width" -> w
          [] fld = "height" -> h
          [] fld = "linesize" ->
                [i \in 1 .. AV_NUM_DATA_POINTERS |->
                    IF flip THEN -Linesizes(fmt, w)[i] ELSE Linesizes(fmt, w)[i]]
          [] fld = "data" ->
                [i \in 1 .. AV_NUM_DATA_POINTERS |->
                    Fill(Linesizes(fmt, w)[i] * h, v)]
          [] OTHER -> tag]

\* F = Video::wrap(ptr)
Wrap ==
    \E fmt \in {"RGB24", "YUV444P"}, w \in 1 .. MaxDim, h \in 1 .. MaxDim,
       flip \in BOOLEAN :
        /\ ops = 0
        /\ Step
        /\ F' = External(fmt, w, h, flip, MaxByte, MaxTag)
        /\ ret' = [Call("wrap", "ok", 0) EXCEPT !.fmt = fmt, !.w = w, !.h = h]
        /\ UNCHANGED G

NextUnsafe ==
    \/ Next
    \/ Alloc
    \/ Wrap

\* the safe interface together with the unsafe functions alloc and wrap
SpecUnsafe == Init /\ [][NextUnsafe]_vars

\* ================================================================ claims
\* the layouts whose compatibility sets the claims spell out
Layouts3 == {"[u8; 3]", "(u8, u8, u8)"}

Layouts4 == {"[u8; 4]", "(u8, u8, u8, u8)"}

CompatibilitySet(T) ==
    IF T \in Layouts3 THEN {"RGB24", "BGR24"}
    ELSE {"RGBA", "BGRA", "ARGB", "ABGR", "RGBZ", "BGRZ", "ZRGB", "ZBGR"}

ViewCalls == {"plane", "plane_mut"}

\* what the call recorded in ret returned, recomputed from the frame
Returned == IF ret.op = "plane" THEN plane(F, ret.T, ret.index)
            ELSE plane_mut(F, ret.T, ret.index)

\* every getter of Video, as one record
Getters(f) == [fld \in PropFields \cup {"format", "width", "height"} |-> f[fld]]

\* ---- C2 as stated: a typed view is returned only for a format of T's
\* compatibility set; for every other current format (None included) the
\* call signals IncompatibleFormat ("unsupported type")
C2_AsStated ==
    (ret.op \in ViewCalls /\ ret.T \in Layouts3 \cup Layouts4) =>
        /\ ret.out = "view" => format(F) \in CompatibilitySet(ret.T)
        /\ format(F) \notin CompatibilitySet(ret.T) => ret.out = "unsupported type"

\* C2 (amended): plane::<T>(index) and plane_mut::<T>(index) return a view
\* only if format() is in T's compatibility set; for any other format, None
\* included, no view is returned: the call signals IncompatibleFormat when
\* index < planes() and IndexOutOfRange when index >= planes()
C2_TypedViewGate ==
    /\ \A T \in Layouts3 \cup Layouts4, index \in 0 .. AV_NUM_DATA_POINTERS :
          \A r \in {plane(F, T, index), plane_mut(F, T, index)} :
             /\ r.out = "view" => format(F) \in CompatibilitySet(T)
             /\ format(F) \notin CompatibilitySet(T) =>
                   r.out = IF index < planes(F) THEN "unsupported type"
                           ELSE "out of bounds"
    /\ ret.op \in ViewCalls => ret.out = Returned.out

\* C2 witness: an allocated frame whose format was set to None refuses a
\* 4-byte view of its plane 0
C2_Witness ==
    /\ ret.op = "plane_mut"
    /\ ret.T = "[u8; 4]"
    /\ ret.index = 0
    /\ planes(F) = 1
    /\ format(F) = "None"
    /\ ret.out = "unsupported type"

\* C3: for every frame state and every component type, plane(index) and
\* plane_mut(index) signal IndexOutOfRange ("out of bounds") for every
\* index >= planes(), and never for index = planes() - 1 when planes() > 0
C3_IndexBound ==
    /\ \A T \in ComponentTypes, index \in 0 .. AV_NUM_DATA_POINTERS :
          \A r \in {plane(F, T, index), plane_mut(F, T, index)} :
             /\ index >= planes(F) => r.out = "out of bounds"
             /\ (planes(F) > 0 /\ index = planes(F) - 1) => r.out # "out of bounds"
    /\ ret.op \in ViewCalls =>
          (ret.out = "out of bounds" <=> ret.index >= planes(F))

\* C3 witness: plane_mut(planes()) was refused on a frame with 3 planes
C3_Witness ==
    /\ ret.op = "plane_mut"
    /\ planes(F) = 3
    /\ ret.index = planes(F)
    /\ ret.out = "out of bounds"

\* the fields of a frame other than fld are the same in g as in f
OnlyChanged(f, g, fld) == \A x \in AllFields \ {fld} : g[x] = f[x]

\* the field each metadata setter writes
SetterField ==
    [set_format |-> "format", set_width |-> "width", set_height |-> "height",
     set_color_space |-> "colorspace", set_color_range |-> "color_range",
     set_color_primaries |-> "color_primaries",
     set_color_transfer_characteristic |-> "color_trc"]

Setters == DOMAIN SetterField

\* C9: a metadata setter changes only its own field of the frame: every
\* other metadata field, the linesize array and the plane storage are as
\* they were, so planes() is unchanged and nothing is resized; the other
\* frame is not touched
C9_SettersWriteThrough ==
    [][ret'.op \in Setters =>
          /\ OnlyChanged(F, F', SetterField[ret'.op])
          /\ F'[SetterField[ret'.op]] =
                (IF ret'.op = "set_format" THEN ret'.fmt ELSE ret'.value)
          /\ planes(F') = planes(F)
          /\ G' = G]_vars

\* C9 witness: set_height was called on an allocated frame with a height
\* that is not the one its storage was reserved for
C9_Witness ==
    /\ ret.op = "set_height"
    /\ planes(F) > 0
    /\ F.linesize[1] > 0
    /\ Len(F.data[1]) # F.linesize[1] * height(F)

\* ---- C1 as stated, for a frame F that owns storage and a clone that
\* returns and whose own allocation succeeded: after G = F.clone(), data()
\* of G has as many planes as data() of F, each with the same bytes, and
\* every getter returns the same value on G as on F
C1_CloneRoundTrip ==
    (ret.op = "clone" /\ ret.out = "ok" /\ ~ret.enomem /\ F.data[1] # <<>>) =>
        /\ Len(data(G)) = Len(data(F))
        /\ \A i \in 1 .. Len(data(F)) : data(G)[i] = data(F)[i]
        /\ Getters(G) = Getters(F)

\* ---- C4 as stated: new(format, width, height) with a format and positive
\* sizes yields a frame that reports exactly these and has the plane count
\* of the format, between 1 and 8, also when the allocation fails
C4_NewReportsArguments ==
    (ret.op = "new" /\ ret.fmt # "None" /\ ret.w > 0 /\ ret.h > 0) =>
        /\ format(F) = ret.fmt
        /\ width(F) = ret.w
        /\ height(F) = ret.h
        /\ planes(F) = NbPlanes(ret.fmt)
        /\ planes(F) \in 1 .. AV_NUM_DATA_POINTERS

\* ---- C5 as stated: data() and data_mut() return planes() slices, slice i
\* of linesize[i] * height() bytes, whatever the linesize array holds
C5_DataAgreesWithPlanes ==
    ret.op = "data" =>
        /\ ret.n = planes(F)
        /\ Len(data_mut(F)) = planes(F)
        /\ \A i \in 1 .. Len(data(F)) :
              data(F)[i].len = F.linesize[i] * height(F)

\* ---- C6 as stated (what it says of the frame): alloc on a frame that
\* owns storage leaves the format, width, height, linesizes and plane data
\* of the frame as they were
C6_SecondAllocRefused ==
    [][(ret'.op = "alloc" /\ F.data[1] # <<>>) => F' = F]_vars

\* ---- C7 as stated (what it says of the destination): clone_from onto a
\* destination whose format, width or height differs from the source's
\* leaves the pixel data and the metadata of the destination as they were
C7_MismatchedCopyRefused ==
    [][(/\ ret'.op = "clone_from"
        /\ (format(G) # format(F) \/ width(G) # width(F)
            \/ height(G) # height(F))) => G' = G]_vars

\* ---- C8 as stated: a returned typed view has linesize * height an exact
\* multiple of size_of(T), its element count times size_of(T) being the
\* byte length of the plane
C8_ExactElementCount ==
    (ret.op \in ViewCalls /\ ret.out = "view") =>
        /\ (F.linesize[ret.index + 1] * height(F)) % size_of(ret.T) = 0
        /\ ret.n * size_of(ret.T) = F.linesize[ret.index + 1] * height(F)

\* ---- C10 as stated: every view returned by data(), plane() and
\* plane_mut() covers only bytes of the storage reserved for its plane
C10_ViewsInsideStorage ==
    /\ ret.op = "data" =>
          \A i \in 1 .. Len(data(F)) : data(F)[i].len <= Len(F.data[i])
    /\ (ret.op \in ViewCalls /\ ret.out = "view") =>
          ret.n * size_of(ret.T) <= Len(F.data[ret.index + 1])

====
